---- MODULE Spec2Model ----
(***************************************************************************)
(* Model of the price checker: ProductComparison (normalize_unit,         *)
(* calculate_unit_price, compare_products) of analysis/comparison.py over  *)
(* the Product / PricePoint data model of core/models.py, the tables of    *)
(* storage/sqlite_storage.py, the page cache of scrapers/amazon_scraper.py *)
(* and update_product of main.py.                                          *)
(*                                                                         *)
(* Representation.  A Python str is a sequence of one-character strings.   *)
(* An Optional value is a sequence of length 0 (None) or 1.  A float or a  *)
(* Decimal is an exact rational [num, den] in lowest terms (binary         *)
(* rounding of float arithmetic is not modelled).  A reference to a        *)
(* Product object is its index in the list of products.                    *)
(***************************************************************************)
EXTENDS Integers, Sequences, FiniteSets, TLC

None == << >>

Some(x) == << x >>

IsNone(o) == Len(o) = 0

Get(o) == o[1]

(***************************************************************************)
(* Characters and the character classes of the regular expression          *)
(* (\d+(?:\.\d+)?)\s*([a-zA-Z]+)                                           *)
(***************************************************************************)
DigitChars == <<"0", "1", "2", "3", "4", "5", "6", "7", "8", "9">>

LowerChars == <<"a", "b", "c", "d", "e", "f", "g", "h", "i", "j", "k", "l", "m", "n", "o", "p", "q", "r", "s", "t", "u", "v", "w", "x", "y", "z">>

UpperChars == <<"A", "B", "C", "D", "E", "F", "G", "H", "I", "J", "K", "L", "M", "N", "O", "P", "Q", "R", "S", "T", "U", "V", "W", "X", "Y", "Z">>

IsDigit(c) == \E i \in 1..10 : DigitChars[i] = c

DigitValue(c) == (CHOOSE i \in 1..10 : DigitChars[i] = c) - 1

IsLetter(c) == \E i \in 1..26 : LowerChars[i] = c \/ UpperChars[i] = c

IsSpace(c) == c \in {" ", "\t", "\n"}

LowerChar(c) ==
  IF \E i \in 1..26 : UpperChars[i] = c
  THEN LowerChars[CHOOSE i \in 1..26 : UpperChars[i] = c]
  ELSE c

UpperChar(c) ==
  IF \E i \in 1..26 : LowerChars[i] = c
  THEN UpperChars[CHOOSE i \in 1..26 : LowerChars[i] = c]
  ELSE c

\* the unit word taken as written
lower_forgotten(s) == s

\* str.lower()
lower(s) == [i \in 1..Len(s) |-> LowerChar(s[i])]

(***************************************************************************)
(* Exact rationals standing for float and Decimal values                   *)
(***************************************************************************)
RECURSIVE GCD(_, _)
GCD(a, b) == IF b = 0 THEN a ELSE GCD(b, a % b)

Rat(n, d) == LET g == GCD(n, d) IN [num |-> n \div g, den |-> d \div g]

RatMul(x, y) == Rat(x.num * y.num, x.den * y.den)

RatDiv(x, y) == Rat(x.num * y.den, x.den * y.num)

RatSub(x, y) == Rat(x.num * y.den - y.num * x.den, x.den * y.den)

RatLess(x, y) == x.num * y.den < y.num * x.den

RatLeq(x, y) == x.num * y.den <= y.num * x.den

Zero == Rat(0, 1)

One == Rat(1, 1)

RECURSIVE Pow10(_)
Pow10(k) == IF k = 0 THEN 1 ELSE 10 * Pow10(k - 1)

(***************************************************************************)
(* float(text) for a text of the form digits[.digits]                      *)
(***************************************************************************)
RECURSIVE DigitsToNat(_)
DigitsToNat(s) ==
  IF Len(s) = 0 THEN 0
  ELSE 10 * DigitsToNat(SubSeq(s, 1, Len(s) - 1)) + DigitValue(s[Len(s)])

PointPos(s) == IF \E i \in 1..Len(s) : s[i] = "." THEN CHOOSE i \in 1..Len(s) : s[i] = "." ELSE 0

\* the decimal literal as mantissa and number of fractional digits
ParseDecimal(s) ==
  LET p == PointPos(s) IN
  IF p = 0 THEN [mant |-> DigitsToNat(s), frac |-> 0]
  ELSE [mant |-> DigitsToNat(SubSeq(s, 1, p - 1) \o SubSeq(s, p + 1, Len(s))),
        frac |-> Len(s) - p]

DecValue(d) == Rat(d.mant, Pow10(d.frac))

float(s) == DecValue(ParseDecimal(s))

(***************************************************************************)
(* str(x) for a float x, as produced by the f-string f"{quantity} {unit}": *)
(* the shortest decimal that round-trips, in fixed notation with at least  *)
(* one fractional digit when the decimal exponent is in -4..15 and in      *)
(* exponent notation (1e-05, 1.5e+16) otherwise.                           *)
(***************************************************************************)
RECURSIVE NatStr(_)
NatStr(n) ==
  IF n < 10 THEN << DigitChars[n + 1] >>
  ELSE Append(NatStr(n \div 10), DigitChars[(n % 10) + 1])

RECURSIVE ZeroPad(_, _)
ZeroPad(s, w) == IF Len(s) >= w THEN s ELSE ZeroPad(<<"0">> \o s, w)

RECURSIVE StripZeros(_)
StripZeros(d) ==
  IF d.frac > 0 /\ d.mant % 10 = 0
  THEN StripZeros([mant |-> d.mant \div 10, frac |-> d.frac - 1])
  ELSE d

FloatStr(x) ==
  IF x.mant = 0 THEN <<"0", ".", "0">>
  ELSE
    LET d == StripZeros(x)
        ds == NatStr(d.mant)
        e == Len(ds) - 1 - d.frac
    IN IF e >= -4 /\ e < 16
       THEN NatStr(d.mant \div Pow10(d.frac)) \o <<".">> \o
            (IF d.frac = 0 THEN <<"0">>
             ELSE ZeroPad(NatStr(d.mant % Pow10(d.frac)), d.frac))
       ELSE << ds[1] >> \o
            (IF Len(ds) > 1 THEN <<".">> \o SubSeq(ds, 2, Len(ds)) ELSE << >>) \o
            <<"e", IF e < 0 THEN "-" ELSE "+">> \o
            ZeroPad(NatStr(IF e < 0 THEN -e ELSE e), 2)

(***************************************************************************)
(* The regular expression (\d+(?:\.\d+)?)\s*([a-zA-Z]+) matched at one     *)
(* position.  Every quantifier is greedy and no shorter choice can make a  *)
(* failed attempt succeed, so the match is found by one left-to-right scan.*)
(***************************************************************************)
RECURSIVE RunEnd(_, _, _)
\* last position of the longest run of characters of class cls starting at i
\* (i - 1 when the run is empty); cls is "d", "s" or "a"
RunEnd(s, i, cls) ==
  IF i <= Len(s) /\ (CASE cls = "d" -> IsDigit(s[i])
                       [] cls = "s" -> IsSpace(s[i])
                       [] OTHER -> IsLetter(s[i]))
  THEN RunEnd(s, i + 1, cls)
  ELSE i - 1

\* None, or Some([g1, g2]) with the two groups of the match starting at i
MatchAt(s, i) ==
  LET intEnd == RunEnd(s, i, "d")
      fracEnd == IF intEnd + 1 <= Len(s) /\ s[intEnd + 1] = "."
                 THEN RunEnd(s, intEnd + 2, "d") ELSE 0
      numEnd == IF fracEnd >= intEnd + 2 THEN fracEnd ELSE intEnd
      spEnd == RunEnd(s, numEnd + 1, "s")
      unitEnd == RunEnd(s, spEnd + 1, "a")
  IN IF intEnd < i \/ unitEnd <= spEnd THEN None
     ELSE Some([g1 |-> SubSeq(s, i, numEnd), g2 |-> SubSeq(s, spEnd + 1, unitEnd)])

\* re.match: only at the start of the text
re_match(s) == IF Len(s) = 0 THEN None ELSE MatchAt(s, 1)

\* re.search: the leftmost position where the pattern matches
re_search(s) ==
  IF \E i \in 1..Len(s) : ~IsNone(MatchAt(s, i))
  THEN MatchAt(s, CHOOSE i \in 1..Len(s) :
                    /\ ~IsNone(MatchAt(s, i))
                    /\ \A j \in 1..(i - 1) : IsNone(MatchAt(s, j)))
  ELSE None

(***************************************************************************)
(* ProductComparison.normalize_unit                                        *)
(***************************************************************************)
\* the branches of the if/elif chain, in order: the tuple of unit words
\* tested, the factor applied to the value and the unit returned
UnitTable == <<
  [aliases |-> {<<"g">>, <<"g", "r", "a", "m">>, <<"g", "r", "a", "m", "s">>},
   factor |-> Rat(1, 1), base |-> <<"g">>],
  [aliases |-> {<<"k", "g">>, <<"k", "i", "l", "o">>, <<"k", "i", "l", "o", "s">>, <<"k", "i", "l", "o", "g", "r", "a", "m">>, <<"k", "i", "l", "o", "g", "r", "a", "m", "s">>},
   factor |-> Rat(1000, 1), base |-> <<"g">>],
  [aliases |-> {<<"o", "z">>, <<"o", "u", "n", "c", "e">>, <<"o", "u", "n", "c", "e", "s">>},
   factor |-> Rat(2835, 100), base |-> <<"g">>],
  [aliases |-> {<<"l", "b">>, <<"l", "b", "s">>, <<"p", "o", "u", "n", "d">>, <<"p", "o", "u", "n", "d", "s">>},
   factor |-> Rat(45359, 100), base |-> <<"g">>],
  [aliases |-> {<<"m", "l">>, <<"m", "i", "l", "l", "i", "l", "i", "t", "e", "r">>, <<"m", "i", "l", "l", "i", "l", "i", "t", "e", "r", "s">>},
   factor |-> Rat(1, 1), base |-> <<"m", "l">>],
  [aliases |-> {<<"l">>, <<"l", "i", "t", "e", "r">>, <<"l", "i", "t", "e", "r", "s">>},
   factor |-> Rat(1000, 1), base |-> <<"m", "l">>],
  [aliases |-> {<<"f", "l", " ", "o", "z">>, <<"f", "l", "u", "i", "d", " ", "o", "u", "n", "c", "e">>, <<"f", "l", "u", "i", "d", " ", "o", "u", "n", "c", "e", "s">>},
   factor |-> Rat(2957, 100), base |-> <<"m", "l">>],
  [aliases |-> {<<"c", "m">>, <<"c", "e", "n", "t", "i", "m", "e", "t", "e", "r">>, <<"c", "e", "n", "t", "i", "m", "e", "t", "e", "r", "s">>},
   factor |-> Rat(1, 1), base |-> <<"c", "m">>],
  [aliases |-> {<<"m">>, <<"m", "e", "t", "e", "r">>, <<"m", "e", "t", "e", "r", "s">>},
   factor |-> Rat(100, 1), base |-> <<"c", "m">>],
  [aliases |-> {<<"i", "n">>, <<"i", "n", "c", "h">>, <<"i", "n", "c", "h", "e", "s">>},
   factor |-> Rat(254, 100), base |-> <<"c", "m">>]
>>

ITEM == <<"i", "t", "e", "m">>

EACH == <<"e", "a", "c", "h">>

\* the first branch of the chain whose tuple contains the unit, 0 if none
UnitBranch(unit) ==
  IF \E k \in 1..Len(UnitTable) : unit \in UnitTable[k].aliases
  THEN CHOOSE k \in 1..Len(UnitTable) :
         /\ unit \in UnitTable[k].aliases
         /\ \A j \in 1..(k - 1) : unit \notin UnitTable[j].aliases
  ELSE 0

\* a text without a match treated like a missing text
normalize_unit_item_fallback(unit_measurement) ==
  IF IsNone(unit_measurement) \/ Len(Get(unit_measurement)) = 0
  THEN [value |-> One, unit |-> ITEM]
  ELSE
    LET text == Get(unit_measurement)
        match == re_match(text)
    IN IF IsNone(match) THEN [value |-> One, unit |-> ITEM]
       ELSE
         LET value == float(Get(match).g1)
             unit == lower(Get(match).g2)
             k == UnitBranch(unit)
         IN IF k > 0
            THEN [value |-> RatMul(value, UnitTable[k].factor), unit |-> UnitTable[k].base]
            ELSE [value |-> value, unit |-> unit]

\* only None, not the empty text, treated as missing
normalize_unit_none_only(unit_measurement) ==
  IF IsNone(unit_measurement)
  THEN [value |-> One, unit |-> ITEM]
  ELSE
    LET text == Get(unit_measurement)
        match == re_match(text)
    IN IF IsNone(match) THEN [value |-> One, unit |-> text]
       ELSE
         LET value == float(Get(match).g1)
             unit == lower(Get(match).g2)
             k == UnitBranch(unit)
         IN IF k > 0
            THEN [value |-> RatMul(value, UnitTable[k].factor), unit |-> UnitTable[k].base]
            ELSE [value |-> value, unit |-> unit]

\* the unit word of the default return taken as written
normalize_unit_raw_unit(unit_measurement) ==
  IF IsNone(unit_measurement) \/ Len(Get(unit_measurement)) = 0
  THEN [value |-> One, unit |-> ITEM]
  ELSE
    LET text == Get(unit_measurement)
        match == re_match(text)
    IN IF IsNone(match) THEN [value |-> One, unit |-> text]
       ELSE
         LET value == float(Get(match).g1)
             unit == lower(Get(match).g2)
             k == UnitBranch(unit)
         IN IF k > 0
            THEN [value |-> RatMul(value, UnitTable[k].factor), unit |-> UnitTable[k].base]
            ELSE [value |-> value, unit |-> Get(match).g2]

\* unit_measurement is an Optional[str]; the result is the tuple (value, unit)
normalize_unit(unit_measurement) ==
  IF IsNone(unit_measurement) \/ Len(Get(unit_measurement)) = 0
  THEN [value |-> One, unit |-> ITEM]
  ELSE
    LET text == Get(unit_measurement)
        match == re_match(text)
    IN IF IsNone(match) THEN [value |-> One, unit |-> text]
       ELSE
         LET value == float(Get(match).g1)
             unit == lower(Get(match).g2)
             k == UnitBranch(unit)
         IN IF k > 0
            THEN [value |-> RatMul(value, UnitTable[k].factor), unit |-> UnitTable[k].base]
            ELSE [value |-> value, unit |-> unit]

(***************************************************************************)
(* sorted(items, key=..., reverse=...): Python's sort is stable, also with *)
(* reverse=True.  keys[i] is the key of items[i]: [inf, v] stands for      *)
(* float('inf') when inf holds and for the number v otherwise.             *)
(***************************************************************************)
Key(v) == [inf |-> FALSE, v |-> v]

Infinity == [inf |-> TRUE, v |-> Zero]

KeyLess(a, b) == ~a.inf /\ (b.inf \/ RatLess(a.v, b.v))

\* the items in the order of the list, back to front when reverse holds
sorted_as_given(items, keys, reverse) ==
  [k \in 1..Len(items) |-> items[IF reverse THEN Len(items) + 1 - k ELSE k]]

sorted(items, keys, reverse) ==
  LET n == Len(items)
      Before(j, i) == IF reverse THEN KeyLess(keys[i], keys[j]) ELSE KeyLess(keys[j], keys[i])
      Tied(j, i) == ~KeyLess(keys[i], keys[j]) /\ ~KeyLess(keys[j], keys[i])
      pos(i) == 1 + Cardinality({j \in 1..n : Before(j, i) \/ (Tied(j, i) /\ j < i)})
  IN [k \in 1..n |-> items[CHOOSE i \in 1..n : pos(i) = k]]

(***************************************************************************)
(* core/models.py: PricePoint and Product                                  *)
(***************************************************************************)
\* the dataclass PricePoint; currency keeps its default
PricePoint(price, timestamp, per_unit_price, unit_measurement) ==
  [price |-> price, timestamp |-> timestamp, currency |-> "USD",
   per_unit_price |-> per_unit_price, unit_measurement |-> unit_measurement]

\* Product(...) followed by __post_init__: a missing history is the empty list
Product(attributes) == [attributes |-> attributes, price_history |-> << >>]

\* no current price unless there is an earlier one to compare with
current_price_needs_two(product) ==
  IF Len(product.price_history) < 2 THEN None
  ELSE Some(sorted(product.price_history,
                   [i \in 1..Len(product.price_history) |->
                      Key(Rat(product.price_history[i].timestamp, 1))],
                   TRUE)[1])

\* the observation appended last, whatever its timestamp
current_price_last_appended(product) ==
  IF Len(product.price_history) = 0 THEN None
  ELSE Some(product.price_history[Len(product.price_history)])

\* Product.current_price
current_price(product) ==
  IF Len(product.price_history) = 0 THEN None
  ELSE Some(sorted(product.price_history,
                   [i \in 1..Len(product.price_history) |->
                      Key(Rat(product.price_history[i].timestamp, 1))],
                   TRUE)[1])

(***************************************************************************)
(* Product.price_change                                                    *)
(***************************************************************************)
\* key=lambda p: p.timestamp, for each observation of the history
TimestampKeys(price_history) ==
  [i \in 1..Len(price_history) |-> Key(Rat(price_history[i].timestamp, 1))]

\* the same keys as the result for two observations
NoChange_uniform ==
  [percentage |-> Zero, absolute |-> Zero, has_changed |-> FALSE,
   current |-> Zero, previous |-> Zero, currency |-> "USD"]

\* the result for fewer than two observations
NoChange == [percentage |-> Zero, absolute |-> Zero, has_changed |-> FALSE]

\* the change as a fraction of the previous price
Percentage_fraction(current, previous) ==
  IF previous = Zero THEN Zero
  ELSE RatDiv(RatSub(current, previous), previous)

\* the percentage of the change, 0 when the previous price is 0
Percentage(current, previous) ==
  IF previous = Zero THEN Zero
  ELSE RatMul(RatDiv(RatSub(current, previous), previous), Rat(100, 1))

\* the dictionary returned for the prices current and previous
ChangeBetween(current, previous, currency) ==
  [percentage |-> Percentage(current, previous),
   absolute |-> RatSub(current, previous),
   has_changed |-> current # previous,
   current |-> current,
   previous |-> previous,
   currency |-> currency]

\* current = sorted_history[-1], previous = sorted_history[-2]
ChangeIn(sorted_history) ==
  ChangeBetween(sorted_history[Len(sorted_history)].price,
                sorted_history[Len(sorted_history) - 1].price,
                sorted_history[Len(sorted_history)].currency)

\* the last two observations in the order of the list
price_change_unsorted(product) ==
  IF Len(product.price_history) < 2 THEN NoChange
  ELSE ChangeIn(product.price_history)

\* Product.price_change
price_change(product) ==
  IF Len(product.price_history) < 2 THEN NoChange
  ELSE ChangeIn(sorted(product.price_history, TimestampKeys(product.price_history), FALSE))

(***************************************************************************)
(* What the calls leave behind in the product                              *)
(***************************************************************************)
\* self.price_history after self.price_history.sort(...): sorted in place
history_sorted_in_place(price_history, reverse) ==
  sorted(price_history, TimestampKeys(price_history), reverse)

\* self.price_history after sorted(self.price_history, ...): sorted() builds
\* a new list and leaves the one it is given as it was
history_after_sorted(price_history, reverse) == price_history

\* the product after product.current_price()
AfterCurrentPrice(product) ==
  [product EXCEPT !.price_history =
     IF Len(@) = 0 THEN @ ELSE history_after_sorted(@, TRUE)]

\* the product after product.price_change()
AfterPriceChange(product) ==
  [product EXCEPT !.price_history =
     IF Len(@) < 2 THEN @ ELSE history_after_sorted(@, FALSE)]

(***************************************************************************)
(* ProductComparison.calculate_unit_price                                  *)
(***************************************************************************)
unit_keys == <<"size", "weight", "quantity", "volume", "dimensions">>

\* truth value of an Optional[Decimal]: None and a zero Decimal are false
DecimalTruthy(o) == ~IsNone(o) /\ Get(o) # Zero

\* truth value of an Optional[str]: None and the empty string are false
StrTruthy(o) == ~IsNone(o) /\ Len(Get(o)) > 0

\* the text f"{quantity} {unit}" for the match found in an attribute value
QuantityText(match) == FloatStr(ParseDecimal(match.g1)) \o <<" ">> \o match.g2

\* the two unit texts of the default interchanged
PerItem_swapped(cp) ==
  [price |-> cp.price, unit_value |-> One, unit |-> EACH,
   original_unit |-> ITEM, currency |-> cp.currency]

\* the per-item default
PerItem(cp) ==
  [price |-> cp.price, unit_value |-> One, unit |-> ITEM,
   original_unit |-> EACH, currency |-> cp.currency]

RECURSIVE ScanAttributes(_, _, _)
\* the loop left at the first key with a quantity, also when the quantity is 0
FromQuantity_first_only(product, cp, k, text, normalized) ==
  IF RatLess(Zero, normalized.value)
  THEN [price |-> RatDiv(cp.price, normalized.value),
        unit_value |-> normalized.value,
        unit |-> normalized.unit,
        original_unit |-> text,
        currency |-> cp.currency]
  ELSE PerItem(cp)

\* lines 89-97: text is f"{quantity} {unit}" and normalized its normalization;
\* a quantity that is not > 0 leaves the loop running
FromQuantity(product, cp, k, text, normalized) ==
  IF RatLess(Zero, normalized.value)
  THEN [price |-> RatDiv(cp.price, normalized.value),
        unit_value |-> normalized.value,
        unit |-> normalized.unit,
        original_unit |-> text,
        currency |-> cp.currency]
  ELSE ScanAttributes(product, cp, k + 1)

\* lines 84-87: match is the result of re.search on the value of key number k
FromMatch(product, cp, k, match) ==
  IF IsNone(match) THEN ScanAttributes(product, cp, k + 1)
  ELSE FromQuantity(product, cp, k, QuantityText(Get(match)),
                    normalize_unit(Some(QuantityText(Get(match)))))

\* the loop over unit_keys from position k on, then the per-item default
ScanAttributes(product, cp, k) ==
  IF k > Len(unit_keys) THEN PerItem(cp)
  ELSE FromMatch(product, cp, k,
                 IF unit_keys[k] \in DOMAIN product.attributes
                 THEN re_search(product.attributes[unit_keys[k]]) ELSE None)

\* lines 66-106: cp is the current PricePoint
UnitPriceAt(product, cp) ==
  IF DecimalTruthy(cp.per_unit_price) /\ StrTruthy(cp.unit_measurement)
  THEN [price |-> Get(cp.per_unit_price),
        unit_value |-> normalize_unit(cp.unit_measurement).value,
        unit |-> normalize_unit(cp.unit_measurement).unit,
        original_unit |-> Get(cp.unit_measurement),
        currency |-> cp.currency]
  ELSE ScanAttributes(product, cp, 1)

\* lines 62-64: current is product.current_price()
UnitPriceFrom(product, current) ==
  IF IsNone(current) THEN None ELSE Some(UnitPriceAt(product, Get(current)))

\* None, or Some(dict) with the keys price, unit_value, unit, original_unit, currency
calculate_unit_price(product) == UnitPriceFrom(product, current_price(product))

(***************************************************************************)
(* ProductComparison.compare_products                                      *)
(***************************************************************************)
\* lines 119-126: the row of product number i
Row(i, unit_price_info, current) ==
  [product |-> i,
   unit_price_info |-> Get(unit_price_info),
   total_price |-> IF IsNone(current) THEN None ELSE Some(Get(current).price),
   currency |-> IF IsNone(current) THEN None ELSE Some(Get(current).currency)]

RECURSIVE BuildRows(_, _)
\* the loop left (break) at the first product without a unit price
NextRows_break(products, i, unit_price_info) ==
  IF IsNone(unit_price_info) THEN << >>
  ELSE << Row(i, unit_price_info, current_price(products[i])) >> \o BuildRows(products, i + 1)

\* lines 116-126: product number i is skipped (continue) when its unit price
\* is None and gets a row otherwise; then the loop goes on
NextRows(products, i, unit_price_info) ==
  IF IsNone(unit_price_info) THEN BuildRows(products, i + 1)
  ELSE << Row(i, unit_price_info, current_price(products[i])) >> \o BuildRows(products, i + 1)

\* the first loop, from product number i on: a row refers to its product by
\* the product's position in the list
BuildRows(products, i) ==
  IF i > Len(products) THEN << >>
  ELSE NextRows(products, i, calculate_unit_price(products[i]))

\* the set built at line 131
Units(result) == {result[i].unit_price_info.unit : i \in 1..Len(result)}

\* the rows share one unit, whatever the target unit is
SameUnitAsTarget_any(result, target_unit) ==
  /\ StrTruthy(target_unit)
  /\ Len(result) > 0
  /\ Cardinality(Units(result)) = 1

\* the condition under which the rows are returned sorted by unit price
SameUnitAsTarget(result, target_unit) ==
  /\ StrTruthy(target_unit)
  /\ Len(result) > 0
  /\ Cardinality(Units(result)) = 1
  /\ (CHOOSE u \in Units(result) : TRUE) = Get(target_unit)

\* key of the default sort: float(total_price) if total_price else float('inf')
TotalKey(row) ==
  IF DecimalTruthy(row.total_price) THEN Key(Get(row.total_price)) ELSE Infinity

UnitPriceKey(row) == Key(row.unit_price_info.price)

\* lines 128-139: the sorted list, and by which of the two return statements
SortRows(result, target_unit) ==
  IF SameUnitAsTarget(result, target_unit)
  THEN [rows |-> sorted(result, [i \in 1..Len(result) |-> UnitPriceKey(result[i])], FALSE),
        by |-> "unit_price"]
  ELSE [rows |-> sorted(result, [i \in 1..Len(result) |-> TotalKey(result[i])], FALSE),
        by |-> "total_price"]

compare_products(products, target_unit) == SortRows(BuildRows(products, 1), target_unit)

(***************************************************************************)
(* storage/sqlite_storage.py: the tables products and price_history.  A    *)
(* database is the record [products, price_history]: the rows of products  *)
(* as a set with one row for an asin, the rows of price_history as the     *)
(* sequence in which they were inserted.  A call that raises leaves the    *)
(* connection without a commit, and what it had written is rolled back.    *)
(***************************************************************************)
\* datetime.isoformat(): the timestamp as text in fields of fixed width
isoformat(timestamp) == ZeroPad(NatStr(timestamp), 2)

\* datetime.fromisoformat()
fromisoformat(text) == DigitsToNat(text)

\* Decimal('NaN'): float() of it is bound as NULL, which the column
\* price REAL NOT NULL refuses
NaN == [num |-> 0, den |-> 0]

\* the product handed to save_product; title is None or a text
TrackedProduct(asin, title, price_history) ==
  [asin |-> asin, title |-> title, attributes |-> [k \in {} |-> << >>],
   price_history |-> price_history]

EmptyDatabase == [products |-> {}, price_history |-> << >>]

\* SELECT asin FROM products WHERE asin = ?
HasProduct(db, asin) == \E r \in db.products : r.asin = asin

\* INSERT OR REPLACE INTO products
ReplaceProduct(rows, product) ==
  {r \in rows : r.asin # product.asin}
    \cup {[asin |-> product.asin, title |-> Get(product.title),
           attributes |-> product.attributes]}

\* SELECT id FROM price_history WHERE asin = ? AND timestamp = ?
HasPriceRow(table, asin, timestamp) ==
  \E k \in 1..Len(table) : table[k].asin = asin /\ table[k].timestamp = timestamp

\* the values of INSERT INTO price_history, with the id AUTOINCREMENT gives
PriceRow(id, asin, price_point) ==
  [id |-> id, asin |-> asin, price |-> price_point.price,
   currency |-> price_point.currency,
   timestamp |-> isoformat(price_point.timestamp),
   per_unit_price |-> IF DecimalTruthy(price_point.per_unit_price)
                      THEN price_point.per_unit_price ELSE None,
   unit_measurement |-> price_point.unit_measurement]

\* every price point is inserted, stored or not
InsertIfNew_always(table, asin, price_point) ==
  [table |-> Append(table, PriceRow(Len(table) + 1, asin, price_point)),
   raised |-> price_point.price = NaN]

\* the check of one price point and its insertion if it is new; raised
\* tells that the INSERT failed
InsertIfNew(table, asin, price_point) ==
  IF HasPriceRow(table, asin, isoformat(price_point.timestamp))
  THEN [table |-> table, raised |-> FALSE]
  ELSE [table |-> Append(table, PriceRow(Len(table) + 1, asin, price_point)),
        raised |-> price_point.price = NaN]

RECURSIVE InsertAll(_, _, _, _)
InsertStep(step, asin, price_history, k) ==
  IF step.raised THEN step ELSE InsertAll(step.table, asin, price_history, k + 1)

\* for price_point in product.price_history, from position k on
InsertAll(table, asin, price_history, k) ==
  IF k > Len(price_history) THEN [table |-> table, raised |-> FALSE]
  ELSE InsertStep(InsertIfNew(table, asin, price_history[k]), asin, price_history, k)

SaveOutcome(db, product, inserted) ==
  IF inserted.raised THEN [db |-> db, result |-> FALSE]
  ELSE [db |-> [products |-> ReplaceProduct(db.products, product),
                price_history |-> inserted.table],
        result |-> TRUE]

\* SQLiteStorage.save_product: the database after the call and the result
save_product(db, product) ==
  IF IsNone(product.title) THEN [db |-> db, result |-> FALSE]
  ELSE SaveOutcome(db, product,
                   InsertAll(db.price_history, product.asin, product.price_history, 1))

AddOutcome(db, inserted) ==
  IF inserted.raised THEN [db |-> db, result |-> FALSE]
  ELSE [db |-> [db EXCEPT !.price_history = inserted.table], result |-> TRUE]

\* SQLiteStorage.add_price_point: the database after the call and the result
add_price_point(db, asin, price_point) ==
  IF ~HasProduct(db, asin) THEN [db |-> db, result |-> FALSE]
  ELSE AddOutcome(db, InsertIfNew(db.price_history, asin, price_point))

\* Decimal(str(x)) for a float x of the database: x as mantissa and number
\* of fractional digits, its text, and the Decimal read from the text
RECURSIVE AsDecimal(_, _)
AsDecimal(x, k) ==
  IF (x.num * Pow10(k)) % x.den = 0
  THEN [mant |-> (x.num * Pow10(k)) \div x.den, frac |-> k]
  ELSE AsDecimal(x, k + 1)

DecimalOfFloat(x) == DecValue(ParseDecimal(FloatStr(AsDecimal(x, 0))))

\* PricePoint(...) built from a row of price_history
PointOfRow(row) ==
  [price |-> DecimalOfFloat(row.price),
   timestamp |-> fromisoformat(row.timestamp),
   currency |-> row.currency,
   per_unit_price |-> IF DecimalTruthy(row.per_unit_price)
                      THEN Some(DecimalOfFloat(Get(row.per_unit_price))) ELSE None,
   unit_measurement |-> row.unit_measurement]

\* ORDER BY timestamp: the texts have fields of fixed width, so their order
\* is the order of the instants they stand for
OrderByTimestamp(rows) ==
  sorted(rows, [i \in 1..Len(rows) |-> Key(Rat(fromisoformat(rows[i].timestamp), 1))], FALSE)

\* SELECT * FROM price_history WHERE asin = ? ORDER BY timestamp
SelectPriceHistory(db, asin) ==
  OrderByTimestamp(SelectSeq(db.price_history, LAMBDA row : row.asin = asin))

ProductOfRows(product_row, rows) ==
  [asin |-> product_row.asin, title |-> Some(product_row.title),
   attributes |-> product_row.attributes,
   price_history |-> [k \in 1..Len(rows) |-> PointOfRow(rows[k])]]

\* SQLiteStorage.get_product
get_product(db, asin) ==
  IF ~HasProduct(db, asin) THEN None
  ELSE Some(ProductOfRows(CHOOSE r \in db.products : r.asin = asin,
                          SelectPriceHistory(db, asin)))

(***************************************************************************)
(* scrapers/amazon_scraper.py.  A page (the parsed response) is the record *)
(* [price], the price it shows or None; a response is an exception, or a   *)
(* status code with a page.  The cache maps a url to [cache_time, content].*)
(***************************************************************************)
\* url = f"https://www.amazon.com/dp/{asin}"
Url(asin) == <<"https://www.amazon.com/dp/", asin>>

\* AmazonScraper.extract_asin on a url of the form .../dp/ASIN
extract_asin(url) == url[2]

EmptyCache == [u \in {} |-> << >>]

\* self.cache_expiry, the value AmazonScraper was constructed with, counted
\* in instants of the clock
cache_expiry == 2

\* self.cache[url] = (current_time, soup)
CachePut(cache, url, current_time, soup) ==
  [u \in DOMAIN cache \cup {url} |->
     IF u = url THEN [cache_time |-> current_time, content |-> soup] ELSE cache[u]]

\* url in self.cache and current_time - cache_time < self.cache_expiry
CacheFresh(cache, url, current_time) ==
  url \in DOMAIN cache /\ current_time - cache[url].cache_time < cache_expiry

\* a failed request answered from the cache when it holds the url
Fetch_stale_on_failure(cache, url, current_time, response) ==
  IF response.raised \/ response.status_code # 200
  THEN [cache |-> cache,
        soup |-> IF url \in DOMAIN cache THEN Some(cache[url].content) ELSE None,
        requests |-> 1]
  ELSE [cache |-> CachePut(cache, url, current_time, response.page),
        soup |-> Some(response.page), requests |-> 1]

\* requests.get and what follows it: the cache, the page returned and the
\* number of requests made
Fetch(cache, url, current_time, response) ==
  IF response.raised \/ response.status_code # 200
  THEN [cache |-> cache, soup |-> None, requests |-> 1]
  ELSE [cache |-> CachePut(cache, url, current_time, response.page),
        soup |-> Some(response.page), requests |-> 1]

\* AmazonScraper._get_with_cache
get_with_cache(cache, url, current_time, response) ==
  IF CacheFresh(cache, url, current_time)
  THEN [cache |-> cache, soup |-> Some(cache[url].content), requests |-> 0]
  ELSE Fetch(cache, url, current_time, response)

\* AmazonScraper.extract_price, at the time datetime.now() gives
extract_price(soup, datetime_now) ==
  IF IsNone(soup.price) THEN None
  ELSE Some(PricePoint(Get(soup.price), datetime_now, None, None))

PriceHistoryOf(price_point) == IF IsNone(price_point) THEN << >> ELSE << Get(price_point) >>

\* AmazonScraper.scrape_product on the page _get_with_cache returned
scrape_product(url, soup, datetime_now) ==
  IF IsNone(soup) THEN None
  ELSE Some(TrackedProduct(extract_asin(url), Some(<<"t">>),
                           PriceHistoryOf(extract_price(Get(soup), datetime_now))))

(***************************************************************************)
(* main.py: update_product                                                 *)
(***************************************************************************)
\* threshold=5.0
threshold == Rat(5, 1)

\* abs(x)
Abs(x) == IF x.num < 0 THEN [x EXCEPT !.num = 0 - x.num] ELSE x

\* product.price_history = existing_product.price_history + product.price_history
Merged(existing_product, scraped) ==
  IF IsNone(existing_product) THEN scraped
  ELSE [scraped EXCEPT !.price_history = Get(existing_product).price_history \o @]

\* any change of the price counts
AboveThreshold_any_change(price_change_info) == price_change_info.has_changed

AboveThreshold(price_change_info) ==
  price_change_info.has_changed /\ RatLeq(threshold, Abs(price_change_info.percentage))

\* price_changed
PriceChanged(existing_product, merged) ==
  ~IsNone(existing_product) /\ AboveThreshold(price_change(merged))

(***************************************************************************)
(* Inputs of the calls                                                     *)
(***************************************************************************)
\* numbers written as digits with an optional decimal part, with their values
Numerals == {
  [text |-> <<"2">>, val |-> Rat(2, 1)],
  [text |-> <<"1", "0", "0">>, val |-> Rat(100, 1)],
  [text |-> <<"1", ".", "5">>, val |-> Rat(3, 2)],
  [text |-> <<"0", ".", "2", "5">>, val |-> Rat(1, 4)]
}

\* the single-word unit names of the vocabulary
Words == {
  <<"g">>,
  <<"g", "r", "a", "m">>,
  <<"g", "r", "a", "m", "s">>,
  <<"k", "g">>,
  <<"k", "i", "l", "o">>,
  <<"k", "i", "l", "o", "s">>,
  <<"k", "i", "l", "o", "g", "r", "a", "m">>,
  <<"k", "i", "l", "o", "g", "r", "a", "m", "s">>,
  <<"o", "z">>,
  <<"o", "u", "n", "c", "e">>,
  <<"o", "u", "n", "c", "e", "s">>,
  <<"l", "b">>,
  <<"l", "b", "s">>,
  <<"p", "o", "u", "n", "d">>,
  <<"p", "o", "u", "n", "d", "s">>,
  <<"m", "l">>,
  <<"m", "i", "l", "l", "i", "l", "i", "t", "e", "r">>,
  <<"m", "i", "l", "l", "i", "l", "i", "t", "e", "r", "s">>,
  <<"l">>,
  <<"l", "i", "t", "e", "r">>,
  <<"l", "i", "t", "e", "r", "s">>,
  <<"c", "m">>,
  <<"c", "e", "n", "t", "i", "m", "e", "t", "e", "r">>,
  <<"c", "e", "n", "t", "i", "m", "e", "t", "e", "r", "s">>,
  <<"m">>,
  <<"m", "e", "t", "e", "r">>,
  <<"m", "e", "t", "e", "r", "s">>,
  <<"i", "n">>,
  <<"i", "n", "c", "h">>,
  <<"i", "n", "c", "h", "e", "s">>
}

\* letter case of a unit word: as written, upper case, capitalised, or with
\* every second letter in upper case
Cases == {"lower", "upper", "capital", "mixed"}

InCase(word, case) ==
  [i \in 1..Len(word) |->
     IF case = "upper" \/ (case = "capital" /\ i = 1) \/ (case = "mixed" /\ i % 2 = 0)
     THEN UpperChar(word[i]) ELSE word[i]]

Separators == {<< >>, <<" ">>}

\* the texts "<n><word>" and "<n> <word>"
QuantityTexts ==
  {n.text \o sep \o InCase(w, c) : n \in Numerals, sep \in Separators, w \in Words, c \in Cases}

\* other texts: empty, no number, no unit, an unknown word, a two-word unit,
\* text around the quantity
OtherTexts == {
  << >>,
  <<"e", "a", "c", "h">>,
  <<"5", "0", "0">>,
  <<"5", "0", "0", "w", "i", "d", "g", "e", "t", "s">>,
  <<"1", "2", " ", "f", "l", " ", "o", "z">>,
  <<"a", "p", "p", "r", "o", "x", " ", "2", "k", "g">>,
  <<"2", "k", "g", " ", "b", "a", "g">>,
  <<"0", "g">>
}

\* the two-word unit names of the vocabulary
FluidWords == {
  <<"f", "l", " ", "o", "z">>,
  <<"f", "l", "u", "i", "d", " ", "o", "u", "n", "c", "e">>,
  <<"f", "l", "u", "i", "d", " ", "o", "u", "n", "c", "e", "s">>
}

\* the texts "<n> fl oz", "<n> fluid ounce", "<n> fluid ounces"
FluidTexts == {n.text \o <<" ">> \o w : n \in Numerals, w \in FluidWords}

\* quantities with their normal forms, and texts to put before and after them
Runs == {
  [text |-> <<"2", "k", "g">>, value |-> Rat(2000, 1), unit |-> <<"g">>],
  [text |-> <<"5", "0", "0", " ", "m", "l">>, value |-> Rat(500, 1), unit |-> <<"m", "l">>],
  [text |-> <<"1", ".", "5", " ", "L", "B", "S">>, value |-> Rat(136077, 200), unit |-> <<"g">>]
}

TextsBefore == {<< >>, <<"a", "p", "p", "r", "o", "x", " ">>, <<"P", "a", "c", "k", ":", " ">>, <<" ">>, <<"(">>, <<"x">>}

TextsAfter == {<< >>, <<" ", "b", "a", "g">>, <<".">>, <<" ", "x", " ", "3">>, <<")">>}

SurroundedTexts == {b \o r.text \o a : b \in TextsBefore, r \in Runs, a \in TextsAfter}

\* unit words outside the vocabulary
UnknownWords == {
  <<"w", "i", "d", "g", "e", "t", "s">>,
  <<"p", "a", "c", "k", "s">>,
  <<"x">>,
  <<"f", "l">>
}

UnknownTexts ==
  {n.text \o sep \o InCase(w, c) :
     n \in Numerals, sep \in Separators, w \in UnknownWords, c \in Cases}

\* texts without a number followed by letters
UnitlessTexts == {
  <<" ">>,
  <<"1", "2", ".">>,
  <<"k", "g", " ", "5">>,
  <<"1", ".", "g">>,
  <<"2", ".", "5">>,
  <<"p", "e", "r", " ", "i", "t", "e", "m">>,
  <<"5", " ", "%">>
}

\* the arguments normalize_unit is called with
UnitMeasurements ==
  {None} \cup {Some(t) : t \in QuantityTexts \cup OtherTexts \cup FluidTexts
                               \cup SurroundedTexts \cup UnknownTexts \cup UnitlessTexts}

\* attribute dictionaries: none of the unit keys, one key, a first key
\* without a quantity or with the quantity 0, two keys with a quantity, a
\* very small quantity, a unit word outside the vocabulary
AttributeSets == {
  [k \in {} |-> << >>],
  [weight |-> <<"2", "0", "0", "g">>],
  [size |-> <<"0", "g">>, weight |-> <<"2", "0", "0", "g">>],
  [size |-> <<"l", "a", "r", "g", "e">>, weight |-> <<"1", "k", "g">>],
  [size |-> <<"1", "0", "0", "g">>, weight |-> <<"1", "k", "g">>],
  [weight |-> <<"0", ".", "0", "0", "0", "0", "1", "k", "g">>],
  [size |-> <<"0", "g">>],
  [volume |-> <<"5", "0", "0", " ", "m", "l">>],
  [size |-> <<"l", "a", "r", "g", "e">>, color |-> <<"r", "e", "d">>],
  [quantity |-> <<"1", "2", " ", "p", "a", "c", "k">>]
}

Prices == {Rat(3, 1), Rat(5, 1)}

Timestamps == {1, 2}

\* what an observation declares: nothing, a per-unit price with its unit
\* text, a per-unit price of 0, a per-unit price or a unit text alone
Declared == {
  [per_unit_price |-> None, unit_measurement |-> None],
  [per_unit_price |-> Some(Rat(15, 1000)), unit_measurement |-> Some(<<"1", "0", "0", "g">>)],
  [per_unit_price |-> Some(Rat(3, 1)), unit_measurement |-> Some(<<"e", "a", "c", "h">>)],
  [per_unit_price |-> Some(Zero), unit_measurement |-> Some(<<"1", "0", "0", "g">>)],
  [per_unit_price |-> Some(Rat(3, 1)), unit_measurement |-> None],
  [per_unit_price |-> None, unit_measurement |-> Some(<<"1", "0", "0", "g">>)]
}

PricePoints ==
  {PricePoint(p, t, d.per_unit_price, d.unit_measurement) :
     p \in Prices, t \in Timestamps, d \in Declared}

\* the products handed to compare_products: without, with one and with two
\* observations; free, with equal and with different totals; with and
\* without a declared per-unit price; sold by weight, by volume, by item
CatalogueAttributes == {
  [k \in {} |-> << >>],
  [weight |-> <<"1", "0", "0", "g">>],
  [volume |-> <<"5", "0", "0", " ", "m", "l">>]
}

CatalogueHistories == {
  << >>,
  << PricePoint(Zero, 1, None, None) >>,
  << PricePoint(Rat(3, 1), 1, None, None) >>,
  << PricePoint(Rat(5, 1), 1, None, None) >>,
  << PricePoint(Rat(3, 1), 1, Some(Rat(3, 1)), Some(<<"1", "0", "0", "g">>)) >>,
  << PricePoint(Rat(5, 1), 1, None, None), PricePoint(Rat(3, 1), 2, None, None) >>
}

Catalogue ==
  {[attributes |-> a, price_history |-> h] : a \in CatalogueAttributes, h \in CatalogueHistories}

TargetUnits == {None, Some(<<"g">>), Some(<<"k", "g">>), Some(<<"m", "l">>), Some(<<"i", "t", "e", "m">>)}

\* longest price history built by add_price_point
MaxHist == 2

\* longest list of products handed to compare_products
MaxProducts == 2

\* the observations of a history that is only read: free, cheaper and dearer,
\* earlier and later, a few of them in another currency
Amounts == {Zero, Rat(3, 1), Rat(5, 1)}

Instants == {1, 2, 3}

Observations ==
  {PricePoint(p, t, None, None) : p \in Amounts, t \in Instants}
  \cup {[PricePoint(Rat(5, 1), t, None, None) EXCEPT !.currency = "EUR"] : t \in Instants}

\* longest history read by current_price and price_change
MaxObservations == 3

\* the products and price points handed to SQLiteStorage: two products,
\* with and without a title; two prices on one day, one of them with a
\* declared per-unit price of 0, and on another day a price and a value
\* that cannot be stored
Asins == {"A", "B"}

Titles == {None, Some(<<"t">>)}

StoragePoints == {
  PricePoint(Rat(3, 1), 1, None, None),
  PricePoint(Rat(5, 1), 1, Some(Zero), Some(<<"1", "0", "0", "g">>)),
  PricePoint(Rat(3, 1), 2, None, None),
  PricePoint(NaN, 2, None, None)
}

\* longest price history of a product handed to save_product
MaxSaved == 2

\* what a product page shows: no price, or a price of 100 or 105 (from 100
\* to 105 the price rises by 5 per cent, from 105 to 100 it falls by less)
Pages == {[price |-> None]} \cup {[price |-> Some(Rat(p, 1))] : p \in {100, 105}}

\* what the network answers: an exception, a status other than 200, or 200
\* with a page
Responses ==
  {[raised |-> TRUE, status_code |-> 0, page |-> [price |-> None]],
   [raised |-> FALSE, status_code |-> 503, page |-> [price |-> None]]}
  \cup {[raised |-> FALSE, status_code |-> 200, page |-> p] : p \in Pages}

\* the calls of update_product: product A with every answer of the network
\* and with a database that works or fails, product B with a page that
\* shows a price and a database that works
TrackerCalls ==
  {[asin |-> "A", response |-> r, storage_fails |-> f] : r \in Responses, f \in BOOLEAN}
  \cup {[asin |-> "B", response |-> r, storage_fails |-> FALSE] :
          r \in {x \in Responses : x.status_code = 200 /\ ~IsNone(x.page.price)}}

\* the notifiers of the configuration: e-mail and Slack
NotifierLists == {<<"email", "slack">>}

\* the instant after which nothing is called any more
MaxTime == 5

StorageProducts ==
  {TrackedProduct(a, t, h) :
     a \in Asins, t \in Titles,
     h \in UNION {[1..n -> StoragePoints] : n \in 0..MaxSaved}}

(***************************************************************************)
(* State: the Product objects, and the call that returned last with its    *)
(* argument and its result                                                 *)
(***************************************************************************)
VARIABLES
  products,          \* the list of Product objects
  pc,                \* "idle", or the function that has just returned
  unit_measurement,  \* argument of normalize_unit
  normalized,        \* its result (None before the call)
  product,           \* argument of calculate_unit_price: position in products
  unit_price_info,   \* its result
  target_unit,       \* argument of compare_products
  comparison,        \* its result
  latest,            \* result of Product.current_price
  change,            \* result of Product.price_change (None before the call)
  database,          \* the tables of SQLiteStorage
  storage_call,      \* the last call of SQLiteStorage, its arguments and result
  now,               \* the clock: time.time() and datetime.now()
  cache,             \* AmazonScraper.cache
  notifiers,         \* the list create_notifier returned
  notified,          \* the calls of notify_price_change made so far
  update_call,       \* the last call of update_product and what it did
  cache_call         \* the last call of _get_with_cache made from outside

callVars == <<products, pc, unit_measurement, normalized, product, unit_price_info,
              target_unit, comparison, latest, change>>

storageVars == <<database, storage_call>>

trackerVars == <<now, cache, notifiers, notified, update_call, cache_call>>

\* what the functions of core/ and analysis/ never touch
envVars == <<storageVars, trackerVars>>

vars == <<callVars, envVars>>

NoStorageCall == [op |-> "none"]

\* a new database file and nothing called on it
NoStorage ==
  /\ database = EmptyDatabase
  /\ storage_call = NoStorageCall

NoUpdateCall == [op |-> "none"]

NoCacheCall == [op |-> "none"]

\* a new scraper and nothing updated
NoTracker ==
  /\ now = 0
  /\ cache = EmptyCache
  /\ notified = << >>
  /\ update_call = NoUpdateCall
  /\ cache_call = NoCacheCall

NoComparison == [rows |-> << >>, by |-> "none"]

NoCall ==
  /\ pc = "idle"
  /\ unit_measurement = None
  /\ normalized = None
  /\ product = 0
  /\ unit_price_info = None
  /\ target_unit = None
  /\ comparison = NoComparison
  /\ latest = None
  /\ change = None

\* a call of ProductComparison.normalize_unit
NormalizeUnit(um) ==
  /\ pc = "idle"
  /\ pc' = "normalize_unit"
  /\ unit_measurement' = um
  /\ normalized' = Some(normalize_unit(um))
  /\ UNCHANGED envVars
  /\ UNCHANGED <<products, product, unit_price_info, target_unit, comparison,
                 latest, change>>

\* the caller puts a product of the catalogue at the end of its list
AppendProduct(p) ==
  /\ pc = "idle"
  /\ Len(products) < MaxProducts
  /\ products' = Append(products, p)
  /\ UNCHANGED envVars
  /\ UNCHANGED <<pc, unit_measurement, normalized, product, unit_price_info,
                 target_unit, comparison, latest, change>>

\* Product.add_price_point
AddPricePoint(i, price_point) ==
  /\ pc = "idle"
  /\ i \in 1..Len(products)
  /\ Len(products[i].price_history) < MaxHist
  /\ products' = [products EXCEPT ![i].price_history = Append(@, price_point)]
  /\ UNCHANGED envVars
  /\ UNCHANGED <<pc, unit_measurement, normalized, product, unit_price_info,
                 target_unit, comparison, latest, change>>

\* a call of ProductComparison.calculate_unit_price on products[i]
CalculateUnitPrice(i) ==
  /\ pc = "idle"
  /\ i \in 1..Len(products)
  /\ pc' = "calculate_unit_price"
  /\ product' = i
  /\ unit_price_info' = calculate_unit_price(products[i])
  /\ products' = [products EXCEPT ![i] = AfterCurrentPrice(@)]
  /\ UNCHANGED envVars
  /\ UNCHANGED <<unit_measurement, normalized, target_unit, comparison, latest, change>>

\* a call of ProductComparison.compare_products on the whole list
CompareProducts(target) ==
  /\ pc = "idle"
  /\ pc' = "compare_products"
  /\ target_unit' = target
  /\ comparison' = compare_products(products, target)
  /\ products' = [i \in 1..Len(products) |-> AfterCurrentPrice(products[i])]
  /\ UNCHANGED envVars
  /\ UNCHANGED <<unit_measurement, normalized, product, unit_price_info, latest, change>>

\* Product.add_price_point on a product whose history is only read by
\* current_price and price_change
AddObservation(i, price_point) ==
  /\ pc = "idle"
  /\ i \in 1..Len(products)
  /\ Len(products[i].price_history) < MaxObservations
  /\ products' = [products EXCEPT ![i].price_history = Append(@, price_point)]
  /\ UNCHANGED envVars
  /\ UNCHANGED <<pc, unit_measurement, normalized, product, unit_price_info,
                 target_unit, comparison, latest, change>>

\* a call of Product.current_price on products[i]
CurrentPrice(i) ==
  /\ pc = "idle"
  /\ i \in 1..Len(products)
  /\ pc' = "current_price"
  /\ product' = i
  /\ latest' = current_price(products[i])
  /\ products' = [products EXCEPT ![i] = AfterCurrentPrice(@)]
  /\ UNCHANGED envVars
  /\ UNCHANGED <<unit_measurement, normalized, unit_price_info, target_unit,
                 comparison, change>>

\* a call of Product.price_change on products[i]
PriceChange(i) ==
  /\ pc = "idle"
  /\ i \in 1..Len(products)
  /\ pc' = "price_change"
  /\ product' = i
  /\ change' = Some(price_change(products[i]))
  /\ products' = [products EXCEPT ![i] = AfterPriceChange(@)]
  /\ UNCHANGED envVars
  /\ UNCHANGED <<unit_measurement, normalized, unit_price_info, target_unit,
                 comparison, latest>>

\* the database and the record of the call after a call of SQLiteStorage
StorageReturns(call, outcome) ==
  /\ database' = outcome.db
  /\ storage_call' = [call EXCEPT !.result = outcome.result]

\* a call of SQLiteStorage.save_product
SaveProduct(p) ==
  /\ StorageReturns([op |-> "save_product", asin |-> p.asin, result |-> FALSE],
                    save_product(database, p))
  /\ UNCHANGED <<callVars, trackerVars>>

\* a call of SQLiteStorage.add_price_point
StoreAddPricePoint(asin, price_point) ==
  /\ StorageReturns([op |-> "add_price_point", asin |-> asin,
                     price_point |-> price_point, result |-> FALSE],
                    add_price_point(database, asin, price_point))
  /\ UNCHANGED <<callVars, trackerVars>>

\* notify_price_change(product, price_change) called on every notifier; the
\* record of a call names the notifier, the product, the change and the
\* timestamps of the observations of the product
NotifyAll(asin, merged, price_change_info) ==
  [i \in 1..Len(notifiers) |->
     [notifier |-> notifiers[i], asin |-> asin, price_change |-> price_change_info,
      timestamps |-> UNION {{merged.price_history[k].timestamp} :
                                k \in 1..Len(merged.price_history)}]]

\* update_product from storage.save_product on: the product is saved, and
\* the notifiers are called if it was saved and the price has changed
SaveAndNotify(call, merged, price_changed, outcome) ==
  /\ database' = outcome.db
  /\ notified' = IF outcome.result /\ price_changed
                 THEN notified \o NotifyAll(merged.asin, merged, price_change(merged))
                 ELSE notified
  /\ update_call' = [call EXCEPT !.scraped = TRUE,
                                 !.observations = Len(merged.price_history),
                                 !.price_changed = price_changed,
                                 !.saved = outcome.result]

\* update_product after storage.get_product and scraper.scrape_product
AfterScrape(call, existing_product, scraped, storage_fails) ==
  IF IsNone(scraped)
  THEN /\ update_call' = call
       /\ UNCHANGED <<database, notified>>
  ELSE SaveAndNotify(call, Merged(existing_product, Get(scraped)),
                     PriceChanged(existing_product, Merged(existing_product, Get(scraped))),
                     IF storage_fails THEN [db |-> database, result |-> FALSE]
                     ELSE save_product(database, Merged(existing_product, Get(scraped))))

AfterGet(asin, existing_product, fetched, storage_fails) ==
  /\ cache' = fetched.cache
  /\ AfterScrape([op |-> "update_product", asin |-> asin,
                  existing |-> ~IsNone(existing_product),
                  stored |-> IF IsNone(existing_product) THEN 0
                             ELSE Len(Get(existing_product).price_history),
                  requests |-> fetched.requests,
                  scraped |-> FALSE, observations |-> 0,
                  price_changed |-> FALSE, saved |-> FALSE],
                 existing_product,
                 scrape_product(Url(asin), fetched.soup, now),
                 storage_fails)

\* a call of update_product with an ASIN; response is what the network
\* answers if it is asked, storage_fails tells that the database cannot be
\* read or written during the call
UpdateProduct(asin, response, storage_fails) ==
  /\ now < MaxTime
  /\ now' = now + 1
  /\ AfterGet(asin,
              IF storage_fails THEN None ELSE get_product(database, asin),
              get_with_cache(cache, Url(asin), now, response),
              storage_fails)
  /\ UNCHANGED <<callVars, storage_call, notifiers, cache_call>>

\* the cache and the record of the call after a call of _get_with_cache
CacheReturns(call, outcome) ==
  /\ cache' = outcome.cache
  /\ cache_call' = [call EXCEPT !.soup = outcome.soup, !.requests = outcome.requests]

\* a call of AmazonScraper._get_with_cache; response is what the network
\* answers if it is asked
GetWithCache(url, response) ==
  /\ now < MaxTime
  /\ now' = now + 1
  /\ CacheReturns([op |-> "_get_with_cache", url |-> url, current_time |-> now,
                   response |-> response, soup |-> None, requests |-> 0],
                  get_with_cache(cache, url, now, response))
  /\ UNCHANGED <<callVars, storageVars, notifiers, notified, update_call>>

\* time passes between two calls
Tick ==
  /\ now < MaxTime
  /\ now' = now + 1
  /\ UNCHANGED <<callVars, storageVars, cache, notifiers, notified, update_call,
                 cache_call>>

\* the caller drops the result and goes on
Return ==
  /\ pc # "idle"
  /\ pc' = "idle"
  /\ unit_measurement' = None
  /\ normalized' = None
  /\ product' = 0
  /\ unit_price_info' = None
  /\ target_unit' = None
  /\ comparison' = NoComparison
  /\ latest' = None
  /\ change' = None
  /\ UNCHANGED <<products, envVars>>

(***************************************************************************)
(* normalize_unit on the texts of UnitMeasurements                         *)
(***************************************************************************)
InitNormalize == NoCall /\ NoStorage /\ NoTracker /\ notifiers = << >> /\ products = << >>

NextNormalize ==
  \/ \E um \in UnitMeasurements : NormalizeUnit(um)
  \/ Return

SpecNormalize == InitNormalize /\ [][NextNormalize]_vars

(***************************************************************************)
(* calculate_unit_price on one product: any attribute dictionary, any      *)
(* history of up to MaxHist observations                                   *)
(***************************************************************************)
InitUnitPrice == NoCall /\ NoStorage /\ NoTracker /\ notifiers = << >> /\ \E a \in AttributeSets : products = << Product(a) >>

NextUnitPrice ==
  \/ \E pp \in PricePoints : AddPricePoint(1, pp)
  \/ CalculateUnitPrice(1)
  \/ Return

SpecUnitPrice == InitUnitPrice /\ [][NextUnitPrice]_vars

(***************************************************************************)
(* compare_products and calculate_unit_price on lists of up to MaxProducts *)
(* products of the catalogue                                               *)
(***************************************************************************)
Init == NoCall /\ NoStorage /\ NoTracker /\ notifiers = << >> /\ products = << >>

Next ==
  \/ \E p \in Catalogue : AppendProduct(p)
  \/ \E i \in 1..MaxProducts : CalculateUnitPrice(i)
  \/ \E t \in TargetUnits : CompareProducts(t)
  \/ \E i \in 1..MaxProducts : CurrentPrice(i)
  \/ \E i \in 1..MaxProducts : PriceChange(i)
  \/ Return

Spec == Init /\ [][Next]_vars

(***************************************************************************)
(* current_price and price_change on one product whose history holds up to *)
(* MaxObservations observations, appended in any order of timestamps       *)
(***************************************************************************)
InitHistory == NoCall /\ NoStorage /\ NoTracker /\ notifiers = << >> /\ products = << Product([k \in {} |-> << >>]) >>

NextHistory ==
  \/ \E pp \in Observations : AddObservation(1, pp)
  \/ CurrentPrice(1)
  \/ PriceChange(1)
  \/ Return

SpecHistory == InitHistory /\ [][NextHistory]_vars

(***************************************************************************)
(* save_product and add_price_point, one call after the other, on one      *)
(* database                                                                *)
(***************************************************************************)
InitStorage == NoCall /\ NoStorage /\ NoTracker /\ notifiers = << >> /\ products = << >>

NextStorage ==
  \/ \E p \in StorageProducts : SaveProduct(p)
  \/ \E a \in Asins, pp \in StoragePoints : StoreAddPricePoint(a, pp)

SpecStorage == InitStorage /\ [][NextStorage]_vars

(***************************************************************************)
(* update_product called again and again on the products of Asins, with    *)
(* and without notifiers, while time passes up to MaxTime                  *)
(***************************************************************************)
InitTracker ==
  /\ NoCall /\ NoStorage /\ NoTracker
  /\ products = << >>
  /\ notifiers \in NotifierLists

NextTracker ==
  \/ \E c \in TrackerCalls : UpdateProduct(c.asin, c.response, c.storage_fails)
  \/ Tick

SpecTracker == InitTracker /\ [][NextTracker]_vars

(***************************************************************************)
(* _get_with_cache called again and again on the urls of two products      *)
(* while time passes up to MaxTime                                         *)
(***************************************************************************)
InitCache ==
  /\ NoCall /\ NoStorage /\ NoTracker
  /\ products = << >>
  /\ notifiers = << >>

NextCache ==
  \/ \E a \in Asins, r \in Responses : GetWithCache(Url(a), r)
  \/ Tick

SpecCache == InitCache /\ [][NextCache]_vars

(***************************************************************************)
(* Properties of compare_products (checked under Spec)                     *)
(***************************************************************************)
Rows == comparison.rows

HasObservation(i) == Len(products[i].price_history) > 0

\* the target unit is given, there is a row, and the base units of the rows
\* form the set with the target unit as its only element
UnitRanking ==
  /\ ~IsNone(target_unit)
  /\ Len(Rows) > 0
  /\ {Rows[k].unit_price_info.unit : k \in 1..Len(Rows)} = {Get(target_unit)}

\* total a is not above total b, an absent total counting as infinitely large
TotalLeq(a, b) == IsNone(b) \/ (~IsNone(a) /\ RatLeq(Get(a), Get(b)))

\* C1: without a target unit, or with row units that are mixed or differ from
\* the target unit, the returned rows are in non-decreasing order of
\* total_price, for every price >= 0 including 0; only a row without a total
\* comes last.
C1_TotalOrder ==
  (pc = "compare_products" /\ ~UnitRanking) =>
    \A i, j \in 1..Len(Rows) : i < j => TotalLeq(Rows[i].total_price, Rows[j].total_price)

\* C2: the rows are sorted by unit price if and only if the target unit is
\* given, there is a row, and the set of the rows' base units is exactly
\* {target unit}; then they are in non-decreasing order of unit price.  In
\* every other case the sort key is taken from total_price: rows with a
\* non-zero total are in non-decreasing order of total (where a row with the
\* total 0 goes is the subject of C1).
C2_UnitRankingIff ==
  pc = "compare_products" =>
    /\ (comparison.by = "unit_price") <=> UnitRanking
    /\ (comparison.by = "total_price") <=> ~UnitRanking
    /\ comparison.by = "unit_price" =>
         \A i, j \in 1..Len(Rows) : i < j =>
           RatLeq(Rows[i].unit_price_info.price, Rows[j].unit_price_info.price)
    /\ comparison.by = "total_price" =>
         \A i, j \in 1..Len(Rows) :
           (i < j /\ Get(Rows[i].total_price) # Zero /\ Get(Rows[j].total_price) # Zero)
             => RatLeq(Get(Rows[i].total_price), Get(Rows[j].total_price))

\* a unit-price ranking that differs from the ranking by total
C2_Witness ==
  /\ pc = "compare_products"
  /\ comparison.by = "unit_price"
  /\ \E i, j \in 1..Len(Rows) :
       i < j /\ RatLess(Get(Rows[j].total_price), Get(Rows[i].total_price))

\* C3: compare_products returns, for a list with products without
\* observations, exactly one row for each product that has an observation
\* and no row for a product that has none.
C3_OneRowPerObservedProduct ==
  pc = "compare_products" =>
    /\ \A k \in 1..Len(Rows) : Rows[k].product \in 1..Len(products)
    /\ \A i \in 1..Len(products) :
         Cardinality({k \in 1..Len(Rows) : Rows[k].product = i})
           = IF HasObservation(i) THEN 1 ELSE 0

\* a product without observations stands before one with an observation
C3_Witness ==
  /\ pc = "compare_products"
  /\ Len(products) = 2
  /\ ~HasObservation(1)
  /\ HasObservation(2)
  /\ Len(Rows) = 1

\* C4: calculate_unit_price returns None if and only if the price history
\* is empty, and every row of compare_products has a total_price and a
\* currency.
C4_NoneIffNoObservation ==
  /\ pc = "calculate_unit_price" => (IsNone(unit_price_info) <=> ~HasObservation(product))
  /\ pc = "compare_products" =>
       \A k \in 1..Len(Rows) : ~IsNone(Rows[k].total_price) /\ ~IsNone(Rows[k].currency)

\* None returned for a product without observations, next to one that has some
C4_Witness ==
  /\ pc = "calculate_unit_price"
  /\ IsNone(unit_price_info)
  /\ \E i \in 1..Len(products) : HasObservation(i)

\* C9: the unit price is the price of one base unit in every tier: two rows
\* with the same total price and the same quantity (unit_value of the same
\* base unit) have the same unit price, whether the quantity comes from a
\* declared per-unit pair or from an attribute.
C9_PricePerBaseUnit ==
  pc = "compare_products" =>
    \A i, j \in 1..Len(Rows) :
      ( /\ Rows[i].total_price = Rows[j].total_price
        /\ Rows[i].unit_price_info.unit = Rows[j].unit_price_info.unit
        /\ Rows[i].unit_price_info.unit_value = Rows[j].unit_price_info.unit_value )
      => Rows[i].unit_price_info.price = Rows[j].unit_price_info.price

(***************************************************************************)
(* Properties of calculate_unit_price (checked under SpecUnitPrice)        *)
(***************************************************************************)
\* the observation the call anchors on, and the product's attributes
Current == Get(current_price(products[product]))

Attributes == products[product].attributes

Called == pc = "calculate_unit_price" /\ HasObservation(product)

\* the observation carries both a per-unit amount and a unit expression
DeclaresUnitPrice == ~IsNone(Current.per_unit_price) /\ ~IsNone(Current.unit_measurement)

\* key number k of unit_keys is present and its value holds a number+unit pattern
HoldsQuantity(k) ==
  /\ unit_keys[k] \in DOMAIN Attributes
  /\ ~IsNone(re_search(Attributes[unit_keys[k]]))

\* the first such key in the fixed order
IsFirstQuantityKey(k) == HoldsQuantity(k) /\ \A j \in 1..(k - 1) : ~HoldsQuantity(j)

\* the canonical quantity of the number and unit word found in key number k
CanonicalQuantity(k) ==
  LET m == Get(re_search(Attributes[unit_keys[k]]))
  IN normalize_unit(Some(m.g1 \o m.g2))

IsPerItem(info) ==
  /\ info.price = Current.price
  /\ info.unit_value = One
  /\ info.unit = ITEM
  /\ info.original_unit = EACH
  /\ info.currency = Current.currency

\* C5: tier 1: whenever the most recent observation carries a per-unit amount
\* (any amount >= 0, 0 included) and a unit expression, the result has that
\* amount as price, the expression as original_unit and the normalized
\* expression as (unit_value, unit), whatever the attributes are.
C5_DeclaredUnitPrice ==
  (Called /\ DeclaresUnitPrice) =>
    /\ ~IsNone(unit_price_info)
    /\ Get(unit_price_info).price = Get(Current.per_unit_price)
    /\ Get(unit_price_info).original_unit = Get(Current.unit_measurement)
    /\ Get(unit_price_info).unit_value = normalize_unit(Current.unit_measurement).value
    /\ Get(unit_price_info).unit = normalize_unit(Current.unit_measurement).unit

\* C6: tier 2: without a declared per-unit price, the first key of
\* [size, weight, quantity, volume, dimensions] that is present with a
\* number+unit pattern (of a positive quantity) decides: the price is the
\* current amount divided by the canonical magnitude, with the canonical
\* base unit; a later key never overrides it.
C6_FirstKeyDecides ==
  (Called /\ ~DeclaresUnitPrice) =>
    \A k \in 1..Len(unit_keys) :
      (IsFirstQuantityKey(k) /\ RatLess(Zero, CanonicalQuantity(k).value)) =>
        /\ Get(unit_price_info).price = RatDiv(Current.price, CanonicalQuantity(k).value)
        /\ Get(unit_price_info).unit_value = CanonicalQuantity(k).value
        /\ Get(unit_price_info).unit = CanonicalQuantity(k).unit

\* C7 as stated: in tier 2, when the first key with a number+unit pattern has
\* a canonical magnitude that is not > 0, the result is the per-item
\* fallback, even when a later key holds a positive quantity.
C7_ZeroQuantityEndsTier ==
  (Called /\ ~DeclaresUnitPrice) =>
    \A k \in 1..Len(unit_keys) :
      (IsFirstQuantityKey(k) /\ ~RatLess(Zero, CanonicalQuantity(k).value)) =>
        IsPerItem(Get(unit_price_info))

\* C7 amended: in tier 2, when the first key with a number+unit pattern has a
\* canonical magnitude that is not > 0, that key is skipped without a
\* division and the scan goes on with the later keys: the result is the
\* per-item fallback if and only if no later key holds a positive quantity.
C7_ZeroQuantitySkipsKey ==
  (Called /\ ~DeclaresUnitPrice) =>
    \A k \in 1..Len(unit_keys) :
      (IsFirstQuantityKey(k) /\ ~RatLess(Zero, CanonicalQuantity(k).value)) =>
        ( IsPerItem(Get(unit_price_info))
          <=> \A j \in (k + 1)..Len(unit_keys) :
                HoldsQuantity(j) => ~RatLess(Zero, CanonicalQuantity(j).value) )

\* size holds the quantity 0 and a later key a positive one, which is used
C7_Witness ==
  /\ Called
  /\ ~DeclaresUnitPrice
  /\ \E k \in 1..Len(unit_keys) :
       /\ IsFirstQuantityKey(k)
       /\ ~RatLess(Zero, CanonicalQuantity(k).value)
       /\ \E j \in (k + 1)..Len(unit_keys) :
            HoldsQuantity(j) /\ RatLess(Zero, CanonicalQuantity(j).value)
  /\ ~IsPerItem(Get(unit_price_info))

\* C8: tier 3: without a declared per-unit price and with none of the five
\* keys present with a number+unit pattern, the result is the current
\* amount per item: unit_value 1, unit 'item', original_unit 'each', and
\* the observation's currency.
C8_PerItemFallback ==
  (Called /\ ~DeclaresUnitPrice /\ \A k \in 1..Len(unit_keys) : ~HoldsQuantity(k)) =>
    /\ ~IsNone(unit_price_info)
    /\ IsPerItem(Get(unit_price_info))

\* a unit key is present, but its value holds no quantity
C8_Witness ==
  /\ Called
  /\ ~DeclaresUnitPrice
  /\ \A k \in 1..Len(unit_keys) : ~HoldsQuantity(k)
  /\ \E k \in 1..Len(unit_keys) : unit_keys[k] \in DOMAIN Attributes
  /\ IsPerItem(Get(unit_price_info))

(***************************************************************************)
(* Properties of normalize_unit (checked under SpecNormalize)              *)
(***************************************************************************)
\* the single-word unit names with their factors and base units
Vocabulary == {
  [word |-> <<"g">>, factor |-> Rat(1, 1), base |-> <<"g">>],
  [word |-> <<"g", "r", "a", "m">>, factor |-> Rat(1, 1), base |-> <<"g">>],
  [word |-> <<"g", "r", "a", "m", "s">>, factor |-> Rat(1, 1), base |-> <<"g">>],
  [word |-> <<"k", "g">>, factor |-> Rat(1000, 1), base |-> <<"g">>],
  [word |-> <<"k", "i", "l", "o">>, factor |-> Rat(1000, 1), base |-> <<"g">>],
  [word |-> <<"k", "i", "l", "o", "s">>, factor |-> Rat(1000, 1), base |-> <<"g">>],
  [word |-> <<"k", "i", "l", "o", "g", "r", "a", "m">>, factor |-> Rat(1000, 1), base |-> <<"g">>],
  [word |-> <<"k", "i", "l", "o", "g", "r", "a", "m", "s">>, factor |-> Rat(1000, 1), base |-> <<"g">>],
  [word |-> <<"o", "z">>, factor |-> Rat(2835, 100), base |-> <<"g">>],
  [word |-> <<"o", "u", "n", "c", "e">>, factor |-> Rat(2835, 100), base |-> <<"g">>],
  [word |-> <<"o", "u", "n", "c", "e", "s">>, factor |-> Rat(2835, 100), base |-> <<"g">>],
  [word |-> <<"l", "b">>, factor |-> Rat(45359, 100), base |-> <<"g">>],
  [word |-> <<"l", "b", "s">>, factor |-> Rat(45359, 100), base |-> <<"g">>],
  [word |-> <<"p", "o", "u", "n", "d">>, factor |-> Rat(45359, 100), base |-> <<"g">>],
  [word |-> <<"p", "o", "u", "n", "d", "s">>, factor |-> Rat(45359, 100), base |-> <<"g">>],
  [word |-> <<"m", "l">>, factor |-> Rat(1, 1), base |-> <<"m", "l">>],
  [word |-> <<"m", "i", "l", "l", "i", "l", "i", "t", "e", "r">>, factor |-> Rat(1, 1), base |-> <<"m", "l">>],
  [word |-> <<"m", "i", "l", "l", "i", "l", "i", "t", "e", "r", "s">>, factor |-> Rat(1, 1), base |-> <<"m", "l">>],
  [word |-> <<"l">>, factor |-> Rat(1000, 1), base |-> <<"m", "l">>],
  [word |-> <<"l", "i", "t", "e", "r">>, factor |-> Rat(1000, 1), base |-> <<"m", "l">>],
  [word |-> <<"l", "i", "t", "e", "r", "s">>, factor |-> Rat(1000, 1), base |-> <<"m", "l">>],
  [word |-> <<"c", "m">>, factor |-> Rat(1, 1), base |-> <<"c", "m">>],
  [word |-> <<"c", "e", "n", "t", "i", "m", "e", "t", "e", "r">>, factor |-> Rat(1, 1), base |-> <<"c", "m">>],
  [word |-> <<"c", "e", "n", "t", "i", "m", "e", "t", "e", "r", "s">>, factor |-> Rat(1, 1), base |-> <<"c", "m">>],
  [word |-> <<"m">>, factor |-> Rat(100, 1), base |-> <<"c", "m">>],
  [word |-> <<"m", "e", "t", "e", "r">>, factor |-> Rat(100, 1), base |-> <<"c", "m">>],
  [word |-> <<"m", "e", "t", "e", "r", "s">>, factor |-> Rat(100, 1), base |-> <<"c", "m">>],
  [word |-> <<"i", "n">>, factor |-> Rat(254, 100), base |-> <<"c", "m">>],
  [word |-> <<"i", "n", "c", "h">>, factor |-> Rat(254, 100), base |-> <<"c", "m">>],
  [word |-> <<"i", "n", "c", "h", "e", "s">>, factor |-> Rat(254, 100), base |-> <<"c", "m">>]
}

\* what the vocabulary makes of each text "<n><name>" and "<n> <name>"
Expected ==
  {[text |-> n.text \o sep \o InCase(v.word, c),
    result |-> [value |-> RatMul(n.val, v.factor), unit |-> v.base]] :
     n \in Numerals, sep \in Separators, v \in Vocabulary, c \in Cases}

\* C10: for every single-word unit name in any letter case and every number
\* n, "<n><name>" and "<n> <name>" normalize to n times the factor of the
\* name, in the base unit of its class.
C10_VocabularyFactors ==
  pc = "normalize_unit" =>
    \A e \in Expected :
      unit_measurement = Some(e.text) => normalized = Some(e.result)

\* a decimal number, a space, and a unit name in capitals that has a factor
C10_Witness ==
  /\ pc = "normalize_unit"
  /\ \E n \in Numerals, v \in Vocabulary :
       /\ n.val.den > 1
       /\ v.factor # One
       /\ unit_measurement = Some(n.text \o <<" ">> \o InCase(v.word, "upper"))
       /\ normalized = Some([value |-> RatMul(n.val, v.factor), unit |-> v.base])

\* C11: the two-word volume names 'fl oz', 'fluid ounce' and 'fluid ounces'
\* are recognized: "<n> fl oz" normalizes to n times 29.57 in 'ml'.
C11_FluidOunces ==
  pc = "normalize_unit" =>
    \A n \in Numerals, w \in FluidWords :
      unit_measurement = Some(n.text \o <<" ">> \o w) =>
        normalized = Some([value |-> RatMul(n.val, Rat(2957, 100)), unit |-> <<"m", "l">>])

\* C12: the first number+letters run decides and everything around it is
\* ignored: with any text before the run and any text after it, the result
\* is the result for the bare run.
C12_SurroundingsIgnored ==
  pc = "normalize_unit" =>
    \A b \in TextsBefore, r \in Runs, a \in TextsAfter :
      unit_measurement = Some(b \o r.text \o a) =>
        normalized = Some([value |-> r.value, unit |-> r.unit])

\* C13: a non-empty text in which no number followed by letters is found
\* normalizes to magnitude 1 with the whole text as unit, while the empty
\* text normalizes to (1, 'item').
C13_UnparsedKeepsText ==
  pc = "normalize_unit" =>
    /\ (~IsNone(unit_measurement) /\ Len(Get(unit_measurement)) > 0
        /\ IsNone(re_search(Get(unit_measurement))))
         => normalized = Some([value |-> One, unit |-> Get(unit_measurement)])
    /\ unit_measurement = Some(<< >>) => normalized = Some([value |-> One, unit |-> ITEM])

\* the text "500" comes back whole
C13_Witness ==
  /\ pc = "normalize_unit"
  /\ unit_measurement = Some(<<"5", "0", "0">>)
  /\ normalized = Some([value |-> One, unit |-> <<"5", "0", "0">>])

\* C14: the empty text and a missing text (None) normalize to exactly
\* magnitude 1 with unit 'item'.
C14_MissingIsOneItem ==
  (pc = "normalize_unit" /\ (IsNone(unit_measurement) \/ Get(unit_measurement) = << >>)) =>
    normalized = Some([value |-> Rat(1, 1), unit |-> <<"i", "t", "e", "m">>])

\* the empty text was normalized
C14_Witness ==
  /\ pc = "normalize_unit"
  /\ unit_measurement = Some(<< >>)
  /\ normalized = Some([value |-> Rat(1, 1), unit |-> <<"i", "t", "e", "m">>])

\* the texts "<n><word>" and "<n> <word>" for the words outside the
\* vocabulary, with the number, the word as written and the word in lower case
UnknownQuantities ==
  {[text |-> n.text \o sep \o InCase(w, c), val |-> n.val,
    written |-> InCase(w, c), lowered |-> w] :
     n \in Numerals, sep \in Separators, w \in UnknownWords, c \in Cases}

\* C15 as stated: a unit word outside the vocabulary, in any letter case,
\* gives magnitude n and the word exactly as it is written in the input.
C15_UnknownWordAsWritten ==
  pc = "normalize_unit" =>
    \A e \in UnknownQuantities :
      unit_measurement = Some(e.text) =>
        normalized = Some([value |-> e.val, unit |-> e.written])

\* C15 amended: a unit word outside the vocabulary, in any letter case,
\* gives magnitude n and the word in lower case.
C15_UnknownWordLowered ==
  pc = "normalize_unit" =>
    \A e \in UnknownQuantities :
      unit_measurement = Some(e.text) =>
        normalized = Some([value |-> e.val, unit |-> e.lowered])

\* a capitalised unknown word after a space
C15_Witness ==
  /\ pc = "normalize_unit"
  /\ \E e \in UnknownQuantities :
       /\ e.written # e.lowered
       /\ unit_measurement = Some(e.text)
       /\ normalized = Some([value |-> e.val, unit |-> e.lowered])

(***************************************************************************)
(* Properties of current_price and price_change (checked under             *)
(* SpecHistory)                                                            *)
(***************************************************************************)
\* the history of the product the call was made on
History == products[product].price_history

\* the positions of h in an order of non-decreasing timestamps
Ascending(h) ==
  {o \in [1..Len(h) -> 1..Len(h)] :
     /\ \A a, b \in 1..Len(h) : a # b => o[a] # o[b]
     /\ \A a \in 1..(Len(h) - 1) : h[o[a]].timestamp <= h[o[a + 1]].timestamp}

\* C16: current_price returns None when the price history is empty, and
\* otherwise an observation of the history whose timestamp is >= the
\* timestamp of every other observation, in whatever order the observations
\* were appended.
C16_LatestObservation ==
  pc = "current_price" =>
    /\ Len(History) = 0 => latest = None
    /\ Len(History) > 0 =>
         /\ ~IsNone(latest)
         /\ \E k \in 1..Len(History) : History[k] = Get(latest)
         /\ \A j \in 1..Len(History) : History[j].timestamp <= Get(latest).timestamp

\* current_price has returned on a history whose latest observation was
\* appended first
C16_Witness ==
  /\ pc = "current_price"
  /\ Len(History) = 3
  /\ History[1].timestamp > History[2].timestamp
  /\ History[1].timestamp > History[3].timestamp
  /\ latest = Some(History[1])

\* C17: on a history of at least two observations price_change takes current
\* = the last and previous = the second-to-last observation in ascending
\* timestamp order, not in insertion order, and returns absolute = current -
\* previous and has_changed = (current # previous); when the later amount
\* of two is the lower one, absolute < 0 and has_changed is true.
C17_LastTwoByTimestamp ==
  (pc = "price_change" /\ Len(History) >= 2) =>
    /\ \E o \in Ascending(History) :
         /\ Get(change).current = History[o[Len(History)]].price
         /\ Get(change).previous = History[o[Len(History) - 1]].price
    /\ Get(change).absolute.num * Get(change).previous.den * Get(change).current.den
         = Get(change).absolute.den
             * (Get(change).current.num * Get(change).previous.den
                  - Get(change).previous.num * Get(change).current.den)
    /\ Get(change).has_changed = (Get(change).current # Get(change).previous)
    /\ \A a, b \in 1..Len(History) :
         (Len(History) = 2 /\ History[a].timestamp < History[b].timestamp
            /\ RatLess(History[b].price, History[a].price))
           => (Get(change).absolute.num < 0 /\ Get(change).has_changed)

\* price_change has returned on two observations appended later one first,
\* the later one being the cheaper
C17_Witness ==
  /\ pc = "price_change"
  /\ Len(History) = 2
  /\ History[1].timestamp > History[2].timestamp
  /\ RatLess(History[1].price, History[2].price)
  /\ Get(change).absolute.num < 0
  /\ Get(change).has_changed

\* C18: on a history of zero or one observation price_change returns
\* percentage 0, absolute 0 and has_changed False, and nothing else: no
\* current, previous or currency field.
C18_ZeroChange ==
  (pc = "price_change" /\ Len(History) < 2) =>
    /\ ~IsNone(change)
    /\ DOMAIN Get(change) = {"percentage", "absolute", "has_changed"}
    /\ Get(change).percentage = Zero
    /\ Get(change).absolute = Zero
    /\ Get(change).has_changed = FALSE

\* price_change has returned on a history of one observation
C18_Witness ==
  /\ pc = "price_change"
  /\ Len(History) = 1
  /\ ~IsNone(change)

\* C19: when the previous amount is 0 the percentage is 0, while absolute and
\* has_changed still tell the change; otherwise percentage x previous =
\* (current - previous) x 100, and the percentage has the sign of absolute.
C19_Percentage ==
  (pc = "price_change" /\ Len(History) >= 2) =>
    /\ Get(change).previous = Zero =>
         /\ Get(change).percentage = Zero
         /\ Get(change).absolute = Get(change).current
         /\ Get(change).has_changed = (Get(change).current # Zero)
    /\ Get(change).previous # Zero =>
         /\ Get(change).percentage.num * Get(change).previous.num
               * Get(change).current.den
             = 100 * Get(change).percentage.den
                 * (Get(change).current.num * Get(change).previous.den
                      - Get(change).previous.num * Get(change).current.den)
         /\ (Get(change).percentage.num < 0) = (Get(change).absolute.num < 0)
         /\ (Get(change).percentage.num > 0) = (Get(change).absolute.num > 0)

\* price_change has returned on a price that went from 0 to 5
C19_Witness ==
  /\ pc = "price_change"
  /\ Len(History) >= 2
  /\ Get(change).previous = Zero
  /\ Get(change).current = Rat(5, 1)
  /\ Get(change).has_changed
  /\ Get(change).percentage = Zero

\* C22: on a history of at least two observations, also one in which
\* several observations share the latest timestamp, price_change reports as
\* current the price and the currency of the observation that current_price
\* returns.
C22_SameCurrentObservation ==
  (pc = "price_change" /\ Len(History) >= 2) =>
    /\ Get(change).current = Get(current_price(products[product])).price
    /\ Get(change).currency = Get(current_price(products[product])).currency

\* the orderings of a list of n elements
Orderings(n) == {o \in [1..n -> 1..n] : \A a, b \in 1..n : a # b => o[a] # o[b]}

\* the product the call was made on, its history reordered by o
Reordered(o) ==
  [products[product] EXCEPT !.price_history = [k \in 1..Len(History) |-> History[o[k]]]]

DistinctTimestamps(h) ==
  \A a, b \in 1..Len(h) : a # b => h[a].timestamp # h[b].timestamp

\* C23: when the timestamps of the history are pairwise distinct, the result
\* of current_price and the result of price_change are the results on every
\* reordering of the list of observations.
C23_OrderOfListIrrelevant ==
  /\ (pc = "current_price" /\ DistinctTimestamps(History)) =>
       \A o \in Orderings(Len(History)) : current_price(Reordered(o)) = latest
  /\ (pc = "price_change" /\ DistinctTimestamps(History)) =>
       \A o \in Orderings(Len(History)) : Some(price_change(Reordered(o))) = change

\* price_change has returned on three observations with three timestamps,
\* appended latest first, whose prices differ
C23_Witness ==
  /\ pc = "price_change"
  /\ Len(History) = 3
  /\ History[1].timestamp > History[2].timestamp
  /\ History[2].timestamp > History[3].timestamp
  /\ History[1].price # History[2].price
  /\ History[2].price # History[3].price
  /\ Get(change).current = History[1].price
  /\ Get(change).previous = History[2].price

(***************************************************************************)
(* What the calls leave unchanged (checked under Spec)                     *)
(***************************************************************************)
\* C20: a call of current_price, price_change, calculate_unit_price or
\* compare_products leaves the list of products as it was: the same products
\* in the same order, each with the same attributes and the same
\* observations in the same order.
C20_CallsLeaveProducts ==
  [][(pc = "idle" /\ pc' \in {"current_price", "price_change",
                              "calculate_unit_price", "compare_products"})
       => products' = products]_vars

\* compare_products has returned on two different products, the second of
\* them with two observations appended earlier one first, which a sort by
\* descending timestamp would exchange
C20_Witness ==
  /\ pc = "compare_products"
  /\ Len(products) = 2
  /\ products[1] # products[2]
  /\ Len(comparison.rows) = 2
  /\ Len(products[2].price_history) = 2
  /\ products[2].price_history[1].timestamp < products[2].price_history[2].timestamp

(***************************************************************************)
(* Properties of SQLiteStorage (checked under SpecStorage)                 *)
(***************************************************************************)
\* the rows of the table price_history
PriceRows == database.price_history

\* C21: every call of save_product and add_price_point leaves the rows of
\* price_history that were stored before it in place and unmodified; a price
\* point whose asin and timestamp are stored already adds no row; and after
\* the call no two rows have the same asin and the same timestamp.
C21_DedupByAsinAndTimestamp ==
  [][/\ Len(PriceRows') >= Len(PriceRows)
     /\ \A k \in 1..Len(PriceRows) : PriceRows'[k] = PriceRows[k]
     /\ \A j, k \in 1..Len(PriceRows') :
          (PriceRows'[j].asin = PriceRows'[k].asin
             /\ PriceRows'[j].timestamp = PriceRows'[k].timestamp) => j = k
     /\ (storage_call'.op = "add_price_point"
          /\ \E k \in 1..Len(PriceRows) :
               /\ PriceRows[k].asin = storage_call'.asin
               /\ fromisoformat(PriceRows[k].timestamp) = storage_call'.price_point.timestamp)
         => PriceRows' = PriceRows]_vars

\* add_price_point has returned True for a price of 5 on a day for which
\* the product has a stored price of 3, next to a row of another product
C21_Witness ==
  /\ storage_call.op = "add_price_point"
  /\ storage_call.result
  /\ storage_call.price_point.price = Rat(5, 1)
  /\ \E k \in 1..Len(PriceRows) :
       /\ PriceRows[k].asin = storage_call.asin
       /\ fromisoformat(PriceRows[k].timestamp) = storage_call.price_point.timestamp
       /\ PriceRows[k].price = Rat(3, 1)
  /\ \E k \in 1..Len(PriceRows) : PriceRows[k].asin # storage_call.asin

(***************************************************************************)
(* Properties of update_product (checked under SpecTracker)                *)
(***************************************************************************)
\* the calls of notify_price_change made by the step
NewNotifications == {notified'[k] : k \in (Len(notified) + 1)..Len(notified')}

\* the prices stored for the product after the step, oldest first
StoredAfter(asin) == SelectPriceHistory(database', asin)

LastTwo(ts) == {t \in ts : Cardinality({u \in ts : u > t}) < 2}

\* C25: no notifier is called twice for the same change of a product, that
\* is, for the same last two observations of its history; an update that
\* brings no new observation after a change was reported reports nothing.
C25_ChangeReportedOnce ==
  \A j, k \in 1..Len(notified) :
    (j < k /\ notified[j].notifier = notified[k].notifier
           /\ notified[j].asin = notified[k].asin)
      => LastTwo(notified[j].timestamps) # LastTwo(notified[k].timestamps)

(***************************************************************************)
(* Properties of _get_with_cache (checked under SpecCache)                 *)
(***************************************************************************)
\* the step is a call of _get_with_cache
CacheCalled == cache_call'.op = "_get_with_cache" /\ cache_call'.current_time = now

\* before the step the cache holds an entry for url that is younger than
\* cache_expiry
YoungEntry(url) ==
  url \in DOMAIN cache /\ now - cache[url].cache_time < cache_expiry

\* the answer of the network is a page with status 200
Succeeded(response) == ~response.raised /\ response.status_code = 200

\* C26: with an entry for the url younger than cache_expiry, _get_with_cache
\* makes no request, returns the cached page and leaves the cache as it is.
\* Otherwise it makes a request: on status 200 it returns the new page and
\* stores it with the time of the call; on another status or an exception
\* it returns None and leaves the cache as it is, a stale entry included.
C26_CacheOrFetch ==
  [][CacheCalled =>
       /\ YoungEntry(cache_call'.url) =>
            /\ cache_call'.requests = 0
            /\ cache_call'.soup = Some(cache[cache_call'.url].content)
            /\ cache' = cache
       /\ (~YoungEntry(cache_call'.url) /\ Succeeded(cache_call'.response)) =>
            /\ cache_call'.requests = 1
            /\ cache_call'.soup = Some(cache_call'.response.page)
            /\ DOMAIN cache' = DOMAIN cache \cup {cache_call'.url}
            /\ cache'[cache_call'.url]
                 = [cache_time |-> now, content |-> cache_call'.response.page]
            /\ \A u \in DOMAIN cache : u # cache_call'.url => cache'[u] = cache[u]
       /\ (~YoungEntry(cache_call'.url) /\ ~Succeeded(cache_call'.response)) =>
            /\ cache_call'.requests = 1
            /\ cache_call'.soup = None
            /\ cache' = cache]_vars

\* _get_with_cache has returned None after a request that failed, while the
\* cache holds a stale entry for the url with a page that shows a price
C26_Witness ==
  /\ cache_call.op = "_get_with_cache"
  /\ cache_call.requests = 1
  /\ ~Succeeded(cache_call.response)
  /\ cache_call.soup = None
  /\ cache_call.url \in DOMAIN cache
  /\ cache_call.current_time - cache[cache_call.url].cache_time >= cache_expiry
  /\ ~IsNone(cache[cache_call.url].content.price)

====
